---- MODULE Spec2Model ----
(***************************************************************************)
(* The streaming session controller of the chat view                       *)
(* (src/src/components/chat/ChatView.tsx): sendMessage, its read loop,     *)
(* line framing, event decoding and folding, stopStreaming and             *)
(* handlePermissionResponse, together with the React closures they read    *)
(* and the timers they start.                                              *)
(*                                                                         *)
(* Strings are sequences of pieces.  A piece is a run of characters that   *)
(* holds no whitespace, or one whitespace character (" " or "\n"), so      *)
(* that String.prototype.trim is computed piece by piece.  On the wire a   *)
(* piece is one character of the 'data: ' marker, a newline, or the JSON   *)
(* text of one event (which never holds a raw newline).                    *)
(***************************************************************************)
EXTENDS Integers, Sequences, FiniteSets, TLC

(***************************************************************************)
(* Bounds of the model.                                                    *)
(***************************************************************************)
MaxInputs == 6   \* budget of inputs: a request costs 2, a chunk or a decision 1
MaxBuf == 7      \* length of the incomplete line the read loop holds back
MaxMessages == 2 \* longest message list that a local command leaves

(***************************************************************************)
(* Optional values: null / undefined is the empty sequence.                *)
(***************************************************************************)
None == <<>>
Some(v) == <<v>>

sessionId == "s1"

(***************************************************************************)
(* String helpers.                                                         *)
(***************************************************************************)
IsWhitespace(c) == c \in {" ", "\n"}

RECURSIVE TrimStart(_)
TrimStart(s) ==
  IF s = <<>> THEN <<>>
  ELSE IF IsWhitespace(Head(s)) THEN TrimStart(Tail(s)) ELSE s

RECURSIVE TrimEnd(_)
TrimEnd(s) ==
  IF s = <<>> THEN <<>>
  ELSE IF IsWhitespace(s[Len(s)]) THEN TrimEnd(SubSeq(s, 1, Len(s) - 1)) ELSE s

\* String.prototype.trim
Trim(s) == TrimEnd(TrimStart(s))

\* line.startsWith(p)
StartsWith(line, p) == Len(line) >= Len(p) /\ SubSeq(line, 1, Len(p)) = p

\* line.slice(k)
Slice(line, k) == SubSeq(line, k + 1, Len(line))

\* buffer.split('\n'): always at least one element
RECURSIVE Split(_)
Split(s) ==
  IF s = <<>> THEN << <<>> >>
  ELSE LET r == Split(Tail(s)) IN
       IF Head(s) = "\n" THEN << <<>> >> \o r
       ELSE << <<Head(s)>> \o Head(r) >> \o Tail(r)

\* the frame marker 'data: '
DataPrefix == <<"d", "a", "t", "a", ":", " ">>

(***************************************************************************)
(* The live tool output is kept run-length encoded: a sequence of runs     *)
(* [c, n], n >= 1 copies of character c, adjacent runs of different        *)
(* characters.                                                             *)
(***************************************************************************)
ToolOutputCap == 5000

RECURSIVE RunsLen(_)
RunsLen(r) == IF r = <<>> THEN 0 ELSE Head(r).n + RunsLen(Tail(r))

RunsCat(a, b) ==
  IF a = <<>> THEN b
  ELSE IF b = <<>> THEN a
  ELSE IF a[Len(a)].c = Head(b).c
       THEN SubSeq(a, 1, Len(a) - 1)
            \o <<[c |-> Head(b).c, n |-> a[Len(a)].n + Head(b).n]>> \o Tail(b)
       ELSE a \o b

\* next.slice(-k)
RECURSIVE RunsLast(_, _)
RunsLast(r, k) ==
  IF RunsLen(r) <= k THEN r
  ELSE LET excess == RunsLen(r) - k IN
       IF Head(r).n <= excess THEN RunsLast(Tail(r), k)
       ELSE <<[c |-> Head(r).c, n |-> Head(r).n - excess]>> \o Tail(r)

(***************************************************************************)
(* JSON texts.  A JSON text is named by a symbol; JSONparse gives the      *)
(* value it denotes, or None where JSON.parse throws a SyntaxError.        *)
(***************************************************************************)
JSONparse(text) ==
  CASE text = "{id:1,name:bash}" -> Some([id |-> "1", name |-> "bash", input |-> "{}"])
    [] text = "{id:1,name:read}" -> Some([id |-> "1", name |-> "read", input |-> "{f}"])
    [] text = "{id:2,name:bash}" -> Some([id |-> "2", name |-> "bash", input |-> "{}"])
    [] text = "{tool_use_id:1,content:ok}" -> Some([tool_use_id |-> "1", content |-> "ok"])
    [] text = "{_progress,bash,2.6}" ->
         Some([progress |-> TRUE, tool_name |-> "bash", elapsed_tenths |-> 26])
    [] text = "{}" -> Some([empty |-> TRUE])
    [] text = "{session_id,model:opus}" -> Some([session_id |-> "sdk1", model |-> "opus"])
    [] text = "{session_id}" -> Some([session_id |-> "sdk1"])
    [] text = "{notification,message:Compacting}" ->
         Some([notification |-> TRUE, message |-> "Compacting"])
    [] text = "{usage:u1}" -> Some([usage |-> "u1"])
    [] text = "{permissionRequestId:p1,suggestions}" ->
         Some([permissionRequestId |-> "p1", suggestions |-> "rules1"])
    [] text = "{permissionRequestId:p2}" -> Some([permissionRequestId |-> "p2"])
    [] OTHER -> None

\* JSON.stringify of a token-usage payload
JSONstringify(v) == [json |-> v]

\* the JSON text of one SSE frame: { type, data }
SSEparse(text) ==
  CASE text = "{text:Hello}" -> Some([type |-> "text", data |-> "Hello"])
    [] text = "{text: world}" -> Some([type |-> "text", data |-> " world"])
    [] text = "{text: }" -> Some([type |-> "text", data |-> " "])
    [] text = "{error:boom}" -> Some([type |-> "error", data |-> "boom"])
    [] text = "{tool_use:1.bash}" -> Some([type |-> "tool_use", data |-> "{id:1,name:bash}"])
    [] text = "{tool_use:1.read}" -> Some([type |-> "tool_use", data |-> "{id:1,name:read}"])
    [] text = "{tool_use:2.bash}" -> Some([type |-> "tool_use", data |-> "{id:2,name:bash}"])
    [] text = "{tool_use:bad}" -> Some([type |-> "tool_use", data |-> "{id:"])
    [] text = "{tool_result:1}" ->
         Some([type |-> "tool_result", data |-> "{tool_use_id:1,content:ok}"])
    [] text = "{tool_result:bad}" -> Some([type |-> "tool_result", data |-> "{tool_use_id:"])
    [] text = "{tool_output:progress}" ->
         Some([type |-> "tool_output", data |-> "{_progress,bash,2.6}"])
    [] text = "{tool_output:w*4}" -> Some([type |-> "tool_output", data |-> "w*4"])
    [] text = "{tool_output:x*2600}" -> Some([type |-> "tool_output", data |-> "x*2600"])
    [] text = "{tool_output:{}}" -> Some([type |-> "tool_output", data |-> "{}"])
    [] text = "{status:init}" -> Some([type |-> "status", data |-> "{session_id,model:opus}"])
    [] text = "{status:init0}" -> Some([type |-> "status", data |-> "{session_id}"])
    [] text = "{status:notify}" ->
         Some([type |-> "status", data |-> "{notification,message:Compacting}"])
    [] text = "{status:{}}" -> Some([type |-> "status", data |-> "{}"])
    [] text = "{status:busy}" -> Some([type |-> "status", data |-> "busy"])
    [] text = "{status:}" -> Some([type |-> "status", data |-> ""])
    [] text = "{result:u1}" -> Some([type |-> "result", data |-> "{usage:u1}"])
    [] text = "{result:{}}" -> Some([type |-> "result", data |-> "{}"])
    [] text = "{permission_request:p1}" ->
         Some([type |-> "permission_request", data |-> "{permissionRequestId:p1,suggestions}"])
    [] text = "{permission_request:p2}" ->
         Some([type |-> "permission_request", data |-> "{permissionRequestId:p2}"])
    [] text = "{permission_request:bad}" ->
         Some([type |-> "permission_request", data |-> "{permissionRequestId:"])
    [] text = "{done}" -> Some([type |-> "done", data |-> ""])
    [] text = "{ping}" -> Some([type |-> "ping", data |-> ""])
    [] OTHER -> None

\* the characters of a string value, in pieces
StrOf(data) ==
  CASE data = "" -> <<>>
    [] data = " " -> <<" ">>
    [] data = " world" -> <<" ", "world">>
    [] OTHER -> <<data>>

\* the characters of a string value, run-length encoded
RunsOf(data) ==
  CASE data = "" -> <<>>
    [] data = "w*4" -> <<[c |-> "w", n |-> 4]>>
    [] data = "x*2600" -> <<[c |-> "x", n |-> 2600]>>
    [] data = "{}" -> <<[c |-> "{", n |-> 1], [c |-> "}", n |-> 1]>>
    [] OTHER -> <<[c |-> data, n |-> 1]>>

\* Math.round of a non-negative number given in tenths
MathRound(tenths) == (tenths + 5) \div 10

Has(rec, f) == f \in DOMAIN rec

(***************************************************************************)
(* Folding one decoded event into the state the read loop owns or sets.    *)
(* S is a record of sendMessage's locals (accumulated, tokenUsage) and of  *)
(* the React state and refs that the switch assigns.                       *)
(***************************************************************************)
ErrorAnnotation == <<"\n", "\n", "**Error:**", " ">>

\* case 'text'
FoldText(S, data) ==
  LET acc == S.accumulated \o StrOf(data) IN
  [S EXCEPT !.accumulated = acc, !.accumulatedRef = acc, !.streamingContent = acc]

\* mutant of AddToolUse: the duplicate test is missing
AddToolUse_Always(prev, toolData) ==
  Append(prev, [id |-> toolData.id, name |-> toolData.name, input |-> toolData.input])

\* setToolUses updater: append unless an entry with this id exists
AddToolUse(prev, toolData) ==
  IF \E i \in 1..Len(prev) : prev[i].id = toolData.id THEN prev
  ELSE Append(prev, [id |-> toolData.id, name |-> toolData.name, input |-> toolData.input])

\* case 'tool_use'
FoldToolUse(S, data) ==
  LET toolData == JSONparse(data) IN
  IF toolData = None THEN S
  ELSE [S EXCEPT !.streamingToolOutput = <<>>,
                 !.toolUses = AddToolUse(@, toolData[1])]

\* case 'tool_result'
FoldToolResult(S, data) ==
  LET resultData == JSONparse(data) IN
  IF resultData = None THEN S
  ELSE [S EXCEPT !.streamingToolOutput = <<>>,
                 !.toolResults = Append(@, [tool_use_id |-> resultData[1].tool_use_id,
                                            content |-> resultData[1].content])]

\* mutant of AppendToolOutput: the oldest characters are kept, not the newest
AppendToolOutput_KeepsHead(prev, data) ==
  LET next == RunsCat(RunsCat(prev, IF prev # <<>> THEN <<[c |-> "\n", n |-> 1]>> ELSE <<>>),
                      RunsOf(data)) IN
  IF RunsLen(next) > ToolOutputCap THEN prev ELSE next

\* setStreamingToolOutput updater
AppendToolOutput(prev, data) ==
  LET next == RunsCat(RunsCat(prev, IF prev # <<>> THEN <<[c |-> "\n", n |-> 1]>> ELSE <<>>),
                      RunsOf(data)) IN
  IF RunsLen(next) > ToolOutputCap THEN RunsLast(next, ToolOutputCap) ELSE next

\* case 'tool_output'
FoldToolOutput(S, data) ==
  LET parsed == JSONparse(data) IN
  IF parsed # None /\ Has(parsed[1], "progress")
  THEN [S EXCEPT !.statusText =
          Some(<<"Running", " ", parsed[1].tool_name, "...", " ", "(",
                 ToString(MathRound(parsed[1].elapsed_tenths)), "s)">>)]
  ELSE [S EXCEPT !.streamingToolOutput = AppendToolOutput(@, data)]

\* event.data || undefined
OrUndefined(data) == IF data = "" THEN None ELSE Some(StrOf(data))

\* case 'status'
FoldStatus(S, data) ==
  LET statusData == JSONparse(data) IN
  IF statusData = None THEN [S EXCEPT !.statusText = OrUndefined(data)]
  ELSE IF Has(statusData[1], "session_id")
  THEN [S EXCEPT !.statusText =
                    Some(<<"Connected", " ", "(",
                           IF Has(statusData[1], "model") THEN statusData[1].model
                           ELSE "claude", ")">>),
                 !.statusTimers = Append(@, S.self)]
  ELSE IF Has(statusData[1], "notification")
  THEN [S EXCEPT !.statusText =
                    IF Has(statusData[1], "message") THEN Some(<<statusData[1].message>>)
                    ELSE IF Has(statusData[1], "title") THEN Some(<<statusData[1].title>>)
                    ELSE None]
  ELSE [S EXCEPT !.statusText = Some(StrOf(data))]

\* case 'result'
FoldResult(S, data) ==
  LET resultData == JSONparse(data) IN
  [S EXCEPT !.tokenUsage = IF resultData # None /\ Has(resultData[1], "usage")
                           THEN Some(resultData[1].usage) ELSE @,
            !.statusText = None]

\* case 'permission_request'
FoldPermissionRequest(S, data) ==
  LET permData == JSONparse(data) IN
  IF permData = None THEN S
  ELSE [S EXCEPT !.pendingPermission = permData,
                 !.permissionResolved = None,
                 !.pendingApprovalSessionId = sessionId]

\* mutant of FoldError: the error replaces the text accumulated so far
FoldError_Overwrites(S, data) ==
  LET acc == ErrorAnnotation \o StrOf(data) IN
  [S EXCEPT !.accumulated = acc, !.accumulatedRef = acc, !.streamingContent = acc]

\* case 'error'
FoldError(S, data) ==
  LET acc == S.accumulated \o ErrorAnnotation \o StrOf(data) IN
  [S EXCEPT !.accumulated = acc, !.accumulatedRef = acc, !.streamingContent = acc]

\* switch (event.type)
FoldEvent(S, event) ==
  CASE event.type = "text" -> FoldText(S, event.data)
    [] event.type = "tool_use" -> FoldToolUse(S, event.data)
    [] event.type = "tool_result" -> FoldToolResult(S, event.data)
    [] event.type = "tool_output" -> FoldToolOutput(S, event.data)
    [] event.type = "status" -> FoldStatus(S, event.data)
    [] event.type = "result" -> FoldResult(S, event.data)
    [] event.type = "permission_request" -> FoldPermissionRequest(S, event.data)
    [] event.type = "error" -> FoldError(S, event.data)
    [] OTHER -> S

\* JSON.parse(line.slice(6)) of one frame; a SyntaxError is caught and the
\* frame skipped
DecodeFrame(payload) ==
  IF Len(payload) = 1 THEN SSEparse(payload[1]) ELSE None

\* mutant of FoldLine: a frame that does not parse is reported inline as an error
FoldLine_ReportsSyntaxError(S, line) ==
  IF ~StartsWith(line, DataPrefix) THEN S
  ELSE LET event == DecodeFrame(Slice(line, 6))
           T == [S EXCEPT !.frames = Append(@, Slice(line, 6))] IN
       IF event = None THEN FoldError(T, "SyntaxError") ELSE FoldEvent(T, event[1])

\* mutant of FoldLine: while a permission request is pending, frames are skipped
FoldLine_SkipsWhilePending(S, line) ==
  IF ~StartsWith(line, DataPrefix) THEN S
  ELSE LET event == DecodeFrame(Slice(line, 6))
           T == [S EXCEPT !.frames = Append(@, Slice(line, 6))] IN
       IF event = None \/ S.pendingPermission # None THEN T ELSE FoldEvent(T, event[1])

\* the body of: for (const line of lines); S.frames records the frames the
\* framer has handed to the decoder
FoldLine(S, line) ==
  IF ~StartsWith(line, DataPrefix) THEN S
  ELSE LET event == DecodeFrame(Slice(line, 6))
           T == [S EXCEPT !.frames = Append(@, Slice(line, 6))] IN
       IF event = None THEN T ELSE FoldEvent(T, event[1])

RECURSIVE FoldLines(_, _)
FoldLines(S, lines) ==
  IF lines = <<>> THEN S ELSE FoldLines(FoldLine(S, Head(lines)), Tail(lines))

\* mutant of FramerLines: the last line is handed on before its newline has come
FramerLines_Eager(buffer, chunk) == Split(buffer \o chunk)

\* one pass of the read loop body on a decoded chunk: the lines completed by
\* this chunk, and the incomplete last line that is held back
FramerLines(buffer, chunk) ==
  LET lines == Split(buffer \o chunk) IN SubSeq(lines, 1, Len(lines) - 1)

\* mutant of FramerRest: the incomplete line is not held back
FramerRest_Dropped(buffer, chunk) == <<>>

FramerRest(buffer, chunk) ==
  LET lines == Split(buffer \o chunk) IN lines[Len(lines)]

(***************************************************************************)
(* State.                                                                  *)
(***************************************************************************)
VARIABLES
  messages,                 \* useState: the session's message list
  isStreaming,              \* useState: the streaming flag
  streamingSessionId,       \* usePanel: session shown as streaming ("" if none)
  streamingContent,         \* useState: text shown while streaming
  accumulatedRef,           \* useRef: copy of the accumulated text
  toolUses,                 \* useState: tool invocations of the turn
  toolResults,              \* useState: tool results of the turn
  statusText,               \* useState: transient status (None = undefined)
  pendingPermission,        \* useState: pending permission request (None = null)
  permissionResolved,       \* useState: 'allow' | 'deny' | null
  pendingApprovalSessionId, \* usePanel: session awaiting approval ("" if none)
  streamingToolOutput,      \* useState: live tool output
  abortControllerRef,       \* useRef: 0 = null, else the invocation whose controller it holds
  rendered,                 \* what the callbacks of the last render closed over
  turns,                    \* the sendMessage invocations: locals, position, controller
  chunksRead,               \* number of chunks the read loops have taken so far
  statusTimers,             \* pending 2 s status timers, by the invocation that set them
  permissionPosts,          \* bodies POSTed to /api/chat/permission, in order
  permissionTimers,         \* decisions whose POST or 1 s timer is still pending
  initializedRef,           \* useRef: the initialMessages prop has been taken over
  commandsRun               \* number of local commands (/help, /clear, /cost) run so far

turnState == <<streamingContent, accumulatedRef, toolUses, toolResults, statusText,
               streamingToolOutput>>
gate == <<pendingPermission, permissionResolved, pendingApprovalSessionId>>
permissionChannel == <<permissionPosts, permissionTimers>>
vars == <<messages, isStreaming, streamingSessionId, turnState, gate, abortControllerRef,
          rendered, turns, chunksRead, statusTimers, permissionChannel, initializedRef,
          commandsRun>>

Init ==
  /\ messages = <<>>
  /\ isStreaming = FALSE
  /\ streamingSessionId = ""
  /\ streamingContent = <<>>
  /\ accumulatedRef = <<>>
  /\ toolUses = <<>>
  /\ toolResults = <<>>
  /\ statusText = None
  /\ pendingPermission = None
  /\ permissionResolved = None
  /\ pendingApprovalSessionId = ""
  /\ streamingToolOutput = <<>>
  /\ abortControllerRef = 0
  /\ rendered = [isStreaming |-> FALSE, pendingPermission |-> None]
  /\ turns = <<>>
  /\ chunksRead = 0
  /\ statusTimers = <<>>
  /\ permissionPosts = <<>>
  /\ permissionTimers = 0
  /\ initializedRef = FALSE
  /\ commandsRun = 0

Turns == 1..Len(turns)

\* an invocation of sendMessage that has not reached the end of its finally
Active(t) == turns[t].pc # "done"

(***************************************************************************)
(* Messages.                                                               *)
(***************************************************************************)
UserMessage(content) ==
  [role |-> "user", content |-> content, token_usage |-> None]

AssistantMessage(content, usage) ==
  [role |-> "assistant", content |-> content, token_usage |-> usage]

StoppedAnnotation == <<"\n", "\n", "*(generation", " ", "stopped)*">>

\* mutant of CompletedMessages: the message is appended without the emptiness test
CompletedMessages_Always(accumulated, tokenUsage) ==
  <<AssistantMessage(Trim(accumulated),
                     IF tokenUsage # None THEN Some(JSONstringify(tokenUsage[1]))
                     ELSE None)>>

\* after the read loop: the assistant message of a completed turn, if any
CompletedMessages(accumulated, tokenUsage) ==
  IF Trim(accumulated) # <<>>
  THEN <<AssistantMessage(Trim(accumulated),
                          IF tokenUsage # None THEN Some(JSONstringify(tokenUsage[1]))
                          ELSE None)>>
  ELSE <<>>

\* mutant of StoppedMessages: the partial message carries a token usage
StoppedMessages_StampsUsage(accumulated) ==
  IF Trim(accumulated) # <<>>
  THEN <<AssistantMessage(Trim(accumulated) \o StoppedAnnotation, Some(JSONstringify("u1")))>>
  ELSE <<>>

\* mutant of StoppedMessages: the annotation is appended whatever the text
StoppedMessages_AlwaysAnnotates(accumulated) ==
  <<AssistantMessage(Trim(accumulated) \o StoppedAnnotation, None)>>

\* catch, AbortError: the partial message of a stopped turn, if any
StoppedMessages(accumulated) ==
  IF Trim(accumulated) # <<>>
  THEN <<AssistantMessage(Trim(accumulated) \o StoppedAnnotation, None)>>
  ELSE <<>>

\* mutant of FailedMessages: the error is swallowed
FailedMessages_Silent(errMsg) == <<>>

\* mutant of FailedMessages: the error is annotated onto the text of the first request
FailedMessages_WithPartial(errMsg) ==
  <<AssistantMessage(<<"Hello", "\n", "\n", "**Error:**", " ">> \o errMsg, None)>>

\* mutant of FailedMessages: the text shown so far is committed as well as the error report
FailedMessages_AlsoCommits(errMsg) ==
  <<AssistantMessage(accumulatedRef, None),
    AssistantMessage(<<"**Error:**", " ">> \o errMsg, None)>>

\* catch, any other error: the error report
FailedMessages(errMsg) ==
  <<AssistantMessage(<<"**Error:**", " ">> \o errMsg, None)>>

\* error.message of what the request can throw, other than an AbortError
FetchErrors ==
  { <<"Failed", " ", "to", " ", "send", " ", "message">>, \* !response.ok, no err.error
    <<"No", " ", "response", " ", "stream">> }          \* no response.body

ReadErrors == { <<"network", " ", "error">> }           \* reader.read() rejects

\* the locals and the position of a fresh invocation
NewTurn(content) ==
  [pc |-> "fetch", content |-> content, accumulated |-> <<>>, tokenUsage |-> None,
   buffer |-> <<>>, frames |-> <<>>, aborted |-> FALSE, exit |-> ""]

\* mutant of Finally: the permission request is not reset
Finally_KeepsRequest ==
  /\ isStreaming' = FALSE
  /\ streamingSessionId' = ""
  /\ streamingContent' = <<>>
  /\ accumulatedRef' = <<>>
  /\ toolUses' = <<>>
  /\ toolResults' = <<>>
  /\ streamingToolOutput' = <<>>
  /\ statusText' = None
  /\ pendingPermission' = pendingPermission
  /\ permissionResolved' = None
  /\ pendingApprovalSessionId' = ""
  /\ abortControllerRef' = 0

\* mutant of Finally: the status text is not reset
Finally_KeepsStatus ==
  /\ isStreaming' = FALSE
  /\ streamingSessionId' = ""
  /\ streamingContent' = <<>>
  /\ accumulatedRef' = <<>>
  /\ toolUses' = <<>>
  /\ toolResults' = <<>>
  /\ streamingToolOutput' = <<>>
  /\ statusText' = statusText
  /\ pendingPermission' = None
  /\ permissionResolved' = None
  /\ pendingApprovalSessionId' = ""
  /\ abortControllerRef' = 0

\* finally
Finally ==
  /\ isStreaming' = FALSE
  /\ streamingSessionId' = ""
  /\ streamingContent' = <<>>
  /\ accumulatedRef' = <<>>
  /\ toolUses' = <<>>
  /\ toolResults' = <<>>
  /\ streamingToolOutput' = <<>>
  /\ statusText' = None
  /\ pendingPermission' = None
  /\ permissionResolved' = None
  /\ pendingApprovalSessionId' = ""
  /\ abortControllerRef' = 0

\* an invocation leaves sendMessage: what it appends, then finally; its locals
\* go out of scope (the record of the frames it saw, and the incomplete line
\* it held back at the end, are kept)
Finish(t, exit, appended) ==
  /\ messages' = messages \o appended
  /\ turns' = [turns EXCEPT ![t] = [NewTurn(@.content) EXCEPT !.pc = "done",
                                                              !.exit = exit,
                                                              !.frames = turns[t].frames,
                                                              !.buffer = turns[t].buffer]]
  /\ Finally
  /\ UNCHANGED <<initializedRef, commandsRun, rendered, chunksRead, statusTimers, permissionChannel>>

\* what the user and the server have done so far: requests started (each
\* counted twice, for its start and its end), chunks delivered, permission
\* decisions given and local commands run
Inputs == 2 * Len(turns) + chunksRead + Len(permissionPosts) + commandsRun

(***************************************************************************)
(* sendMessage.                                                            *)
(***************************************************************************)
SendContents == { <<"hi">> }

\* mutant of SendRejected: the guard is missing
SendRejected_Never == FALSE

\* if (isStreaming) return;  -- the flag is the one the callback closed over
SendRejected == rendered.isStreaming

\* the state sendMessage reads or assigns before its first await
View ==
  [messages |-> messages, isStreaming |-> isStreaming,
   streamingSessionId |-> streamingSessionId, streamingContent |-> streamingContent,
   accumulatedRef |-> accumulatedRef, toolUses |-> toolUses, toolResults |-> toolResults,
   statusText |-> statusText, streamingToolOutput |-> streamingToolOutput,
   pendingPermission |-> pendingPermission, permissionResolved |-> permissionResolved,
   pendingApprovalSessionId |-> pendingApprovalSessionId,
   abortControllerRef |-> abortControllerRef, turns |-> turns]

\* sendMessage(content), up to its first await: the state it leaves.  A new
\* entry of turns is a request issued, with its own AbortController.
SendEffect(content) ==
  IF SendRejected THEN View
  ELSE [View EXCEPT !.messages = Append(@, UserMessage(content)),
                    !.isStreaming = TRUE,
                    !.streamingSessionId = sessionId,
                    !.streamingContent = <<>>,
                    !.accumulatedRef = <<>>,
                    !.toolUses = <<>>,
                    !.toolResults = <<>>,
                    !.statusText = None,
                    !.turns = Append(@, NewTurn(content)),
                    !.abortControllerRef = Len(turns) + 1]

Send(content) ==
  /\ Inputs + 2 <= MaxInputs
  /\ LET E == SendEffect(content) IN
     /\ messages' = E.messages
     /\ isStreaming' = E.isStreaming
     /\ streamingSessionId' = E.streamingSessionId
     /\ streamingContent' = E.streamingContent
     /\ accumulatedRef' = E.accumulatedRef
     /\ toolUses' = E.toolUses
     /\ toolResults' = E.toolResults
     /\ statusText' = E.statusText
     /\ streamingToolOutput' = E.streamingToolOutput
     /\ pendingPermission' = E.pendingPermission
     /\ permissionResolved' = E.permissionResolved
     /\ pendingApprovalSessionId' = E.pendingApprovalSessionId
     /\ abortControllerRef' = E.abortControllerRef
     /\ turns' = E.turns
  /\ UNCHANGED <<initializedRef, commandsRun, rendered, chunksRead, statusTimers, permissionChannel>>

\* await fetch(...) resolves with an ok response that has a body
FetchOk(t) ==
  /\ turns[t].pc = "fetch"
  /\ ~turns[t].aborted
  /\ turns' = [turns EXCEPT ![t].pc = "read"]
  /\ UNCHANGED <<initializedRef, commandsRun, messages, isStreaming, streamingSessionId, turnState, gate,
                 abortControllerRef, rendered, chunksRead, statusTimers, permissionChannel>>

\* the request fails before streaming: a non-ok response, no body, or fetch rejects
FetchFails(t, errMsg) ==
  /\ turns[t].pc = "fetch"
  /\ ~turns[t].aborted
  /\ Finish(t, "failed", FailedMessages(errMsg))

\* the state the switch reads and assigns, for invocation t
LoopState(t) ==
  [self |-> t,
   accumulated |-> turns[t].accumulated,
   tokenUsage |-> turns[t].tokenUsage,
   frames |-> turns[t].frames,
   streamingContent |-> streamingContent,
   accumulatedRef |-> accumulatedRef,
   toolUses |-> toolUses,
   toolResults |-> toolResults,
   streamingToolOutput |-> streamingToolOutput,
   statusText |-> statusText,
   statusTimers |-> statusTimers,
   pendingPermission |-> pendingPermission,
   permissionResolved |-> permissionResolved,
   pendingApprovalSessionId |-> pendingApprovalSessionId]

\* one pass of the while loop: reader.read() gives a chunk, which is framed and folded
Read(t, chunk) ==
  /\ turns[t].pc = "read"
  /\ ~turns[t].aborted
  /\ Inputs < MaxInputs
  /\ Len(FramerRest(turns[t].buffer, chunk)) <= MaxBuf
  /\ LET S == FoldLines(LoopState(t), FramerLines(turns[t].buffer, chunk)) IN
     /\ turns' = [turns EXCEPT ![t].accumulated = S.accumulated,
                               ![t].tokenUsage = S.tokenUsage,
                               ![t].frames = S.frames,
                               ![t].buffer = FramerRest(turns[t].buffer, chunk)]
     /\ chunksRead' = chunksRead + 1
     /\ streamingContent' = S.streamingContent
     /\ accumulatedRef' = S.accumulatedRef
     /\ toolUses' = S.toolUses
     /\ toolResults' = S.toolResults
     /\ streamingToolOutput' = S.streamingToolOutput
     /\ statusText' = S.statusText
     /\ statusTimers' = S.statusTimers
     /\ pendingPermission' = S.pendingPermission
     /\ permissionResolved' = S.permissionResolved
     /\ pendingApprovalSessionId' = S.pendingApprovalSessionId
  /\ UNCHANGED <<initializedRef, commandsRun, messages, isStreaming, streamingSessionId, abortControllerRef, rendered,
                 permissionChannel>>

\* reader.read() gives done: the loop ends and the turn completes
ReadDone(t) ==
  /\ turns[t].pc = "read"
  /\ ~turns[t].aborted
  /\ Finish(t, "completed", CompletedMessages(turns[t].accumulated, turns[t].tokenUsage))

\* reader.read() rejects with an error other than an AbortError
ReadFails(t, errMsg) ==
  /\ turns[t].pc = "read"
  /\ ~turns[t].aborted
  /\ Finish(t, "failed", FailedMessages(errMsg))

\* mutant of Aborted: the turn does not end while a permission request is pending
Aborted_AwaitsDecision(t) ==
  /\ Active(t)
  /\ turns[t].aborted
  /\ pendingPermission = None
  /\ Finish(t, "stopped", StoppedMessages(turns[t].accumulated))

\* the pending fetch or read rejects with the AbortError of an aborted controller
Aborted(t) ==
  /\ Active(t)
  /\ turns[t].aborted
  /\ Finish(t, "stopped", StoppedMessages(turns[t].accumulated))

\* reader.read() gives done although the controller has been aborted: the
\* stream was closed early instead of the read being rejected
ReadEndsEarly(t) ==
  /\ turns[t].pc = "read"
  /\ turns[t].aborted
  /\ Finish(t, "completed", CompletedMessages(turns[t].accumulated, turns[t].tokenUsage))

(***************************************************************************)
(* handleCommand, and handleSubmit of the message input.                   *)
(***************************************************************************)
\* BUILT_IN_COMMANDS, by value
BuiltInCommands ==
  { <<"/help">>, <<"/clear">>, <<"/compact">>, <<"/cost">>, <<"/doctor">>, <<"/init">>,
    <<"/review">>, <<"/terminal-setup">> }

\* the commands that handleCommand resolves itself
LocalCommands == { <<"/help">>, <<"/clear">>, <<"/cost">> }

\* the static messages of /help and /cost
HelpMessage == AssistantMessage(<<"## Available Commands ...">>, None)
CostMessage == AssistantMessage(<<"## Token Usage ...">>, None)

\* handleCommand(command): the state it leaves
CommandEffect(command) ==
  CASE command = <<"/help">> -> [View EXCEPT !.messages = Append(@, HelpMessage)]
    [] command = <<"/clear">> -> [View EXCEPT !.messages = <<>>]
    [] command = <<"/cost">> -> [View EXCEPT !.messages = Append(@, CostMessage)]
    [] OTHER -> SendEffect(command)

\* mutant of SubmitEffect: the built-in commands are not told apart
SubmitEffect_AllToSend(inputValue) ==
  LET content == Trim(inputValue) IN
  IF content = <<>> THEN View ELSE SendEffect(content)

\* handleSubmit with inputValue in the text area (disabled is false): the
\* state it leaves
SubmitEffect(inputValue) ==
  LET content == Trim(inputValue) IN
  IF content = <<>> THEN View
  ELSE IF content \in BuiltInCommands THEN CommandEffect(content)
  ELSE SendEffect(content)

\* the state becomes E
Apply(E) ==
  /\ messages' = E.messages
  /\ isStreaming' = E.isStreaming
  /\ streamingSessionId' = E.streamingSessionId
  /\ streamingContent' = E.streamingContent
  /\ accumulatedRef' = E.accumulatedRef
  /\ toolUses' = E.toolUses
  /\ toolResults' = E.toolResults
  /\ statusText' = E.statusText
  /\ streamingToolOutput' = E.streamingToolOutput
  /\ pendingPermission' = E.pendingPermission
  /\ permissionResolved' = E.permissionResolved
  /\ pendingApprovalSessionId' = E.pendingApprovalSessionId
  /\ abortControllerRef' = E.abortControllerRef
  /\ turns' = E.turns
  /\ UNCHANGED <<initializedRef, rendered, chunksRead, statusTimers, permissionChannel>>

\* handleCommand(command), as the popover and the form call it
HandleCommand(command) ==
  /\ IF command \in LocalCommands
     THEN Len(CommandEffect(command).messages) <= MaxMessages /\ Inputs < MaxInputs
     ELSE Inputs + 2 <= MaxInputs
  /\ Apply(CommandEffect(command))
  /\ commandsRun' = commandsRun + (IF command \in LocalCommands THEN 1 ELSE 0)

\* the form is submitted with inputValue in the text area
HandleSubmit(inputValue) ==
  /\ Trim(inputValue) # <<>>
  /\ IF Trim(inputValue) \in LocalCommands
     THEN Len(SubmitEffect(inputValue).messages) <= MaxMessages /\ Inputs < MaxInputs
     ELSE Inputs + 2 <= MaxInputs
  /\ Apply(SubmitEffect(inputValue))
  /\ commandsRun' = commandsRun + (IF Trim(inputValue) \in LocalCommands THEN 1 ELSE 0)

(***************************************************************************)
(* The effect on the initialMessages prop.                                 *)
(***************************************************************************)
\* the stored messages of the session, as the parent passes them once loaded
InitialMessages == { <<AssistantMessage(<<"earlier">>, None)>> }

\* the prop is non-empty for the first time: it replaces the message list
InitialMessagesEffect(initialMessages) ==
  /\ initialMessages # <<>>
  /\ ~initializedRef
  /\ initializedRef' = TRUE
  /\ messages' = initialMessages
  /\ UNCHANGED <<isStreaming, streamingSessionId, turnState, gate, abortControllerRef,
                 rendered, turns, chunksRead, statusTimers, permissionChannel, commandsRun>>

(***************************************************************************)
(* stopStreaming.                                                          *)
(***************************************************************************)
StopStreaming ==
  /\ abortControllerRef # 0
  /\ turns' = [turns EXCEPT ![abortControllerRef].aborted = TRUE]
  /\ abortControllerRef' = 0
  /\ UNCHANGED <<initializedRef, commandsRun, messages, isStreaming, streamingSessionId, turnState, gate, rendered,
                 chunksRead, statusTimers, permissionChannel>>

(***************************************************************************)
(* React renders: the callbacks close over the current state.              *)
(***************************************************************************)
Render ==
  /\ rendered # [isStreaming |-> isStreaming, pendingPermission |-> pendingPermission]
  /\ rendered' = [isStreaming |-> isStreaming, pendingPermission |-> pendingPermission]
  /\ UNCHANGED <<initializedRef, commandsRun, messages, isStreaming, streamingSessionId, turnState, gate,
                 abortControllerRef, turns, chunksRead, statusTimers, permissionChannel>>

(***************************************************************************)
(* The 2 s timer of an init status event.                                  *)
(***************************************************************************)
StatusTimerFires ==
  /\ statusTimers # <<>>
  /\ statusTimers' = Tail(statusTimers)
  /\ statusText' = None
  /\ UNCHANGED <<initializedRef, commandsRun, messages, isStreaming, streamingSessionId, streamingContent,
                 accumulatedRef, toolUses, toolResults, streamingToolOutput, gate,
                 abortControllerRef, rendered, turns, chunksRead, permissionChannel>>

(***************************************************************************)
(* handlePermissionResponse.                                               *)
(***************************************************************************)
Decisions == {"allow", "allow_session", "deny"}

\* mutant of PermissionBody: the suggestions of the request are never sent
PermissionBody_NoSuggestions(request, decision) ==
  [permissionRequestId |-> request.permissionRequestId,
   decision |->
     IF decision = "deny"
     THEN [behavior |-> "deny", message |-> "User denied permission"]
     ELSE [behavior |-> "allow"]]

PermissionBody(request, decision) ==
  [permissionRequestId |-> request.permissionRequestId,
   decision |->
     IF decision = "deny"
     THEN [behavior |-> "deny", message |-> "User denied permission"]
     ELSE IF decision = "allow_session" /\ Has(request, "suggestions")
     THEN [behavior |-> "allow", updatedPermissions |-> request.suggestions]
     ELSE [behavior |-> "allow"]]

\* mutant of PermissionResponse: the pending request is cleared with the submission
PermissionResponse_ClearsAtOnce(decision) ==
  /\ rendered.pendingPermission # None
  /\ Inputs < MaxInputs
  /\ permissionPosts' =
       Append(permissionPosts, PermissionBody(rendered.pendingPermission[1], decision))
  /\ permissionTimers' = permissionTimers + 1
  /\ pendingPermission' = None
  /\ permissionResolved' = Some(IF decision = "deny" THEN "deny" ELSE "allow")
  /\ pendingApprovalSessionId' = ""
  /\ UNCHANGED <<initializedRef, commandsRun, messages, isStreaming, streamingSessionId, turnState,
                 abortControllerRef, rendered, turns, chunksRead, statusTimers>>

\* handlePermissionResponse(decision), up to its await
PermissionResponse(decision) ==
  /\ rendered.pendingPermission # None
  /\ Inputs < MaxInputs
  /\ permissionPosts' =
       Append(permissionPosts, PermissionBody(rendered.pendingPermission[1], decision))
  /\ permissionTimers' = permissionTimers + 1
  /\ permissionResolved' = Some(IF decision = "deny" THEN "deny" ELSE "allow")
  /\ pendingApprovalSessionId' = ""
  /\ UNCHANGED <<initializedRef, commandsRun, messages, isStreaming, streamingSessionId, turnState, pendingPermission,
                 abortControllerRef, rendered, turns, chunksRead, statusTimers>>

\* mutant of PermissionTimerFires: the delayed clear resets the resolved marker only
PermissionTimerFires_KeepsRequest ==
  /\ permissionTimers > 0
  /\ permissionTimers' = permissionTimers - 1
  /\ permissionResolved' = None
  /\ UNCHANGED <<initializedRef, commandsRun, messages, isStreaming, streamingSessionId, turnState, pendingPermission,
                 pendingApprovalSessionId, abortControllerRef, rendered, turns, chunksRead,
                 statusTimers, permissionPosts>>

\* the POST has settled (resolved or rejected alike) and the 1 s timer started
\* after it fires
PermissionTimerFires ==
  /\ permissionTimers > 0
  /\ permissionTimers' = permissionTimers - 1
  /\ pendingPermission' = None
  /\ permissionResolved' = None
  /\ UNCHANGED <<initializedRef, commandsRun, messages, isStreaming, streamingSessionId, turnState,
                 pendingApprovalSessionId, abortControllerRef, rendered, turns, chunksRead,
                 statusTimers, permissionPosts>>

(***************************************************************************)
(* What the server can put on the wire.                                    *)
(***************************************************************************)
\* one frame: data: <json>\n
Line(json) == DataPrefix \o <<json, "\n">>

\* the chunks of the controller-level specification
ControlChunks ==
  { Line("{text:Hello}"), Line("{text: }"), Line("{permission_request:p1}"),
    Line("{status:init}") }

\* the chunks of the single-turn specification: text, tool use, usage, done,
\* a frame that is not JSON, and a malformed frame between two text frames in
\* one chunk
SandwichChunk == Line("{text:Hello}") \o Line("{not json") \o Line("{text: world}")

TurnChunks ==
  { Line("{text:Hello}"), Line("{text: world}"), Line("{not json"), Line("{done}"),
    Line("{tool_use:1.bash}"), Line("{tool_use:1.read}"), Line("{tool_use:2.bash}"),
    Line("{result:u1}"), SandwichChunk }

\* the chunks of the framer specification: a stream of frames and separator
\* lines cut inside the marker, after it, before the newline and after it;
\* a chunk is up to two pieces, or empty, or one whole line
FramerPieces ==
  { <<"d", "a", "t">>, <<"a", ":", " ">>, <<"{text:Hello}">>, <<"\n">> }

FramerChunks ==
  {<<>>, Line("{text: world}")} \cup FramerPieces
    \cup { p \o q : p \in FramerPieces, q \in FramerPieces }

\* the chunks of the tool-output specification: raw output, short and long, a
\* progress heartbeat, and tool invocations, one of them with a repeated id
OutputChunks ==
  { Line("{tool_output:x*2600}"), Line("{tool_output:w*4}"), Line("{tool_output:progress}"),
    Line("{tool_use:1.bash}"), Line("{tool_use:1.read}") }

\* the chunks of the specifications with fairness: text and a permission request
LiveChunks == { Line("{text:Hello}"), Line("{permission_request:p1}") }

\* what the user types and submits, and the commands picked in the popover
SubmitInputs == { <<"/help", " ">>, <<"/clear">>, <<" ", "hi">> }

PopoverCommands == { <<"/compact">> }

\* the chunks of the text specification: text and error events, and events
\* of other kinds between them
TextChunks ==
  { Line("{text:Hello}"), Line("{text: world}"), Line("{error:boom}"),
    Line("{tool_use:1.bash}"), Line("{status:busy}"),
    Line("{text: world}") \o Line("{error:boom}") }

\* the chunks of the gate specification: two permission requests, one with
\* suggestions and one without, and text
GateChunks ==
  { Line("{permission_request:p1}"), Line("{permission_request:p2}"), Line("{text:Hello}") }

\* the chunks of the status specification: the init status, a notification, a
\* progress heartbeat, and text
StatusChunks ==
  { Line("{status:init}"), Line("{status:notify}"), Line("{tool_output:progress}"),
    Line("{text:Hello}") }

Next ==
  \/ \E content \in SendContents : Send(content)
  \/ \E t \in Turns : FetchOk(t)
  \/ \E t \in Turns : \E errMsg \in FetchErrors : FetchFails(t, errMsg)
  \/ \E t \in Turns : \E chunk \in ControlChunks : Read(t, chunk)
  \/ \E t \in Turns : ReadDone(t)
  \/ \E t \in Turns : \E errMsg \in ReadErrors : ReadFails(t, errMsg)
  \/ \E t \in Turns : Aborted(t)
  \/ \E t \in Turns : ReadEndsEarly(t)
  \/ StopStreaming
  \/ Render
  \/ StatusTimerFires
  \/ \E decision \in Decisions : PermissionResponse(decision)
  \/ PermissionTimerFires
  \/ \E command \in LocalCommands : HandleCommand(command)
  \/ \E initialMessages \in InitialMessages : InitialMessagesEffect(initialMessages)

Spec == Init /\ [][Next]_vars

\* one request, its stream drawn from TurnChunks
TurnNext ==
  \/ \E content \in SendContents : turns = <<>> /\ Send(content)
  \/ \E t \in Turns : FetchOk(t)
  \/ \E t \in Turns : \E chunk \in TurnChunks : Read(t, chunk)
  \/ \E t \in Turns : ReadDone(t)
  \/ \E t \in Turns : \E errMsg \in ReadErrors : ReadFails(t, errMsg)
  \/ \E t \in Turns : Aborted(t)
  \/ StopStreaming
  \/ Render

TurnSpec == Init /\ [][TurnNext]_vars

\* one request, its stream cut into FramerChunks
FramerNext ==
  \/ \E content \in SendContents : turns = <<>> /\ Send(content)
  \/ \E t \in Turns : FetchOk(t)
  \/ \E t \in Turns : \E chunk \in FramerChunks : Read(t, chunk)
  \/ \E t \in Turns : ReadDone(t)
  \/ Render

FramerSpec == Init /\ [][FramerNext]_vars

\* one request, its stream drawn from OutputChunks
OutputNext ==
  \/ \E content \in SendContents : turns = <<>> /\ Send(content)
  \/ \E t \in Turns : FetchOk(t)
  \/ \E t \in Turns : \E chunk \in OutputChunks : Read(t, chunk)
  \/ \E t \in Turns : ReadDone(t)
  \/ Render

OutputSpec == Init /\ [][OutputNext]_vars

\* requests whose streams are drawn from LiveChunks, with the permission gate
LiveNext ==
  \/ \E content \in SendContents : Send(content)
  \/ \E t \in Turns : FetchOk(t)
  \/ \E t \in Turns : \E errMsg \in FetchErrors : FetchFails(t, errMsg)
  \/ \E t \in Turns : \E chunk \in LiveChunks : Read(t, chunk)
  \/ \E t \in Turns : ReadDone(t)
  \/ \E t \in Turns : \E errMsg \in ReadErrors : ReadFails(t, errMsg)
  \/ \E t \in Turns : Aborted(t)
  \/ StopStreaming
  \/ Render
  \/ \E decision \in Decisions : PermissionResponse(decision)
  \/ PermissionTimerFires

\* the POST of a decision settles and the timer set after it fires; nothing
\* is assumed of the stream
GateLiveSpec == Init /\ [][LiveNext]_vars /\ WF_vars(PermissionTimerFires)

\* the server answers every request, every stream ends or fails, and an
\* aborted request rejects; nothing is assumed of the user's decisions
LiveSpec ==
  /\ Init /\ [][LiveNext]_vars
  /\ WF_vars(\E t \in Turns : FetchOk(t) \/ \E errMsg \in FetchErrors : FetchFails(t, errMsg))
  /\ WF_vars(\E t \in Turns : ReadDone(t) \/ \E errMsg \in ReadErrors : ReadFails(t, errMsg))
  /\ WF_vars(\E t \in Turns : Aborted(t))

\* the message input in front of the controller: requests are made through
\* handleSubmit and handleCommand
CommandNext ==
  \/ \E inputValue \in SubmitInputs : HandleSubmit(inputValue)
  \/ \E command \in PopoverCommands : HandleCommand(command)
  \/ \E t \in Turns : FetchOk(t)
  \/ \E t \in Turns : \E chunk \in {Line("{text:Hello}")} : Read(t, chunk)
  \/ \E t \in Turns : ReadDone(t)
  \/ Render

CommandSpec == Init /\ [][CommandNext]_vars

\* one request that can be stopped, on a platform where an aborted read
\* either rejects or reports the end of the stream
CancelNext ==
  \/ \E content \in SendContents : turns = <<>> /\ Send(content)
  \/ \E t \in Turns : FetchOk(t)
  \/ \E t \in Turns : \E chunk \in {Line("{text:Hello}"), Line("{result:u1}")} : Read(t, chunk)
  \/ \E t \in Turns : ReadDone(t)
  \/ \E t \in Turns : ReadEndsEarly(t)
  \/ \E t \in Turns : Aborted(t)
  \/ StopStreaming
  \/ Render

CancelSpec == Init /\ [][CancelNext]_vars

\* one request, its stream drawn from TextChunks
TextNext ==
  \/ \E content \in SendContents : turns = <<>> /\ Send(content)
  \/ \E t \in Turns : FetchOk(t)
  \/ \E t \in Turns : \E chunk \in TextChunks : Read(t, chunk)
  \/ \E t \in Turns : ReadDone(t)
  \/ Render

TextSpec == Init /\ [][TextNext]_vars

\* requests whose streams are drawn from GateChunks, and the decisions
GateNext ==
  \/ \E content \in SendContents : Send(content)
  \/ \E t \in Turns : FetchOk(t)
  \/ \E t \in Turns : \E chunk \in GateChunks : Read(t, chunk)
  \/ \E t \in Turns : ReadDone(t)
  \/ Render
  \/ \E decision \in Decisions : PermissionResponse(decision)
  \/ PermissionTimerFires

GateSpec == Init /\ [][GateNext]_vars

\* one request, its stream drawn from StatusChunks, and the 2 s timers
StatusNext ==
  \/ \E content \in SendContents : turns = <<>> /\ Send(content)
  \/ \E t \in Turns : FetchOk(t)
  \/ \E t \in Turns : \E chunk \in StatusChunks : Read(t, chunk)
  \/ \E t \in Turns : ReadDone(t)
  \/ StatusTimerFires

StatusSpec == Init /\ [][StatusNext]_vars

(***************************************************************************)
(* Properties.                                                             *)
(***************************************************************************)
\* the per-turn state is reset and the cancellation handle is null
Cleared ==
  /\ ~isStreaming
  /\ streamingContent = <<>>
  /\ accumulatedRef = <<>>
  /\ toolUses = <<>>
  /\ toolResults = <<>>
  /\ streamingToolOutput = <<>>
  /\ statusText = None
  /\ abortControllerRef = 0

\* the token_usage of a committed message: the captured payload, serialized
UsageOf(tokenUsage) ==
  IF tokenUsage # None THEN Some(JSONstringify(tokenUsage[1])) ELSE None

\* C1: at most one turn is in flight on the session at any time, whatever the
\* interleaving of send calls: a send made while a turn is active starts no
\* second request.
C1_OneTurnInFlight == Cardinality({t \in Turns : Active(t)}) <= 1

\* C2: a send that finds the streaming flag set is a no-op: the message list,
\* the turn state, the permission gate and the cancellation handle stay as
\* they are and no request is issued.
C2_SendNoOpWhileStreaming ==
  rendered.isStreaming => \A content \in SendContents : SendEffect(content) = View

C2_Witness ==
  /\ rendered.isStreaming
  /\ isStreaming
  /\ Inputs + 2 <= MaxInputs
  /\ \E t \in Turns : turns[t].pc = "read" /\ turns[t].accumulated # <<>>

\* C3: whenever an invocation of send ends, by whichever exit, the state it
\* leaves has the streaming flag, the text buffer, the invocation and result
\* lists, the live output, the status text and the cancellation handle cleared.
C3_CleanupOnEveryExit ==
  [][\A t \in Turns : (Active(t) /\ turns'[t].pc = "done") => Cleared']_vars

C3_Witness ==
  /\ Cleared
  /\ \E t \in Turns : turns[t].exit = "stopped"
  /\ \E t \in Turns : turns[t].exit = "failed"

\* C4: in every state in which no turn is active a send is accepted: it
\* appends a user message and issues a request.
C4_SendAcceptedWhenIdle ==
  (\A t \in Turns : ~Active(t)) =>
    \A content \in SendContents :
      /\ SendEffect(content).messages = Append(messages, UserMessage(content))
      /\ Len(SendEffect(content).turns) = Len(turns) + 1

\* C5 as claimed: on normal completion a non-empty text buffer gives exactly
\* one assistant message whose content is the buffer, with the captured usage;
\* an empty buffer gives none.
C5_Original ==
  [][\A t \in Turns :
       (Active(t) /\ turns'[t].exit = "completed") =>
         messages' = IF turns[t].accumulated # <<>>
                     THEN Append(messages, AssistantMessage(turns[t].accumulated,
                                                            UsageOf(turns[t].tokenUsage)))
                     ELSE messages]_vars

\* C5, amended: on normal completion, if the text buffer trimmed of leading
\* and trailing whitespace is non-empty, exactly one assistant message is
\* appended, whose content is the trimmed buffer and whose token usage is the
\* captured usage, if any; if the buffer is empty or whitespace only, none is.
C5_CompletedCommitsTrimmedText ==
  [][\A t \in Turns :
       (Active(t) /\ turns'[t].exit = "completed") =>
         messages' = IF Trim(turns[t].accumulated) # <<>>
                     THEN Append(messages, AssistantMessage(Trim(turns[t].accumulated),
                                                            UsageOf(turns[t].tokenUsage)))
                     ELSE messages]_vars

\* text("Hello"), text(" world"), done, end of stream: content "Hello world"
C5_Witness ==
  /\ Len(turns) = 1
  /\ turns[1].exit = "completed"
  /\ turns[1].frames = << <<"{text:Hello}">>, <<"{text: world}">>, <<"{done}">> >>
  /\ messages = <<UserMessage(<<"hi">>),
                  AssistantMessage(<<"Hello", " ", "world">>, None)>>

\* C6: a turn whose request cancel() aborted after text was folded and before
\* its stream ended ends by appending exactly one assistant message, the
\* accumulated text (as the commit stores it, trimmed of leading and trailing
\* whitespace) followed by the stopped annotation; the partial text is not
\* discarded and no error report is appended.
C6_StoppedCommitsTrimmedText ==
  [][\A t \in Turns :
       (Active(t) /\ turns[t].aborted /\ turns'[t].pc = "done") =>
         messages' = IF Trim(turns[t].accumulated) # <<>>
                     THEN Append(messages,
                                 AssistantMessage(Trim(turns[t].accumulated)
                                                    \o StoppedAnnotation, None))
                     ELSE messages]_vars

\* C7: a request that fails for a reason other than cancellation, before or
\* during streaming, makes the turn append exactly one assistant message that
\* reports the error, and the turn ends with the cleanup done.
C7_FailureReported ==
  [][\A t \in Turns :
       (Active(t) /\ turns'[t].exit = "failed") =>
         /\ Cleared'
         /\ \E errMsg \in (IF turns[t].pc = "fetch" THEN FetchErrors ELSE ReadErrors) :
              messages' = Append(messages,
                                 AssistantMessage(<<"**Error:**", " ">> \o errMsg, None))]_vars

C7_Witness ==
  \E t \in Turns :
    /\ turns[t].exit = "failed"
    /\ turns[t].frames # <<>>
    /\ messages[Len(messages)] =
         AssistantMessage(<<"**Error:**", " ", "network", " ", "error">>, None)
    /\ Cleared

\* a line that is not a frame whose JSON fails to parse
WellFormed(line) ==
  ~(StartsWith(line, DataPrefix) /\ DecodeFrame(Slice(line, 6)) = None)

\* the loop state without the record of the frames seen
Folded(S) == [S EXCEPT !.frames = <<>>]

\* C8: a frame whose JSON fails to parse is dropped: it changes neither the
\* turn state nor the message list nor the streaming flag, and the frames
\* around it are folded as if it were not there.
C8_MalformedFramesDropped ==
  /\ [](\A t \in Turns :
          turns[t].pc = "read" =>
            \A chunk \in TurnChunks :
              LET lines == FramerLines(turns[t].buffer, chunk) IN
              Folded(FoldLines(LoopState(t), lines))
                = Folded(FoldLines(LoopState(t), SelectSeq(lines, WellFormed))))
  /\ [][chunksRead' # chunksRead =>
          messages' = messages /\ isStreaming' = isStreaming]_vars

C8_Witness ==
  \E t \in Turns :
    /\ turns[t].frames = << <<"{text:Hello}">>, <<"{not json">>, <<"{text: world}">> >>
    /\ turns[t].accumulated = <<"Hello", " ", "world">>
    /\ streamingContent = <<"Hello", " ", "world">>

\* the lines that carry the frame marker
IsFrame(line) == StartsWith(line, DataPrefix)

\* C9: however a character sequence is cut into chunks (inside a frame, or
\* with an empty chunk), the framer hands on the same frames in the same
\* order and holds back the same incomplete line.
C9_CutInvariance ==
  \A t \in Turns :
    turns[t].pc = "read" =>
      \A chunk \in FramerChunks : \A k \in 0..Len(chunk) :
        LET first == SubSeq(chunk, 1, k)
            second == SubSeq(chunk, k + 1, Len(chunk))
            held == FramerRest(turns[t].buffer, first) IN
        /\ SelectSeq(FramerLines(turns[t].buffer, first), IsFrame)
             \o SelectSeq(FramerLines(held, second), IsFrame)
             = SelectSeq(FramerLines(turns[t].buffer, chunk), IsFrame)
        /\ FramerRest(held, second) = FramerRest(turns[t].buffer, chunk)

\* a frame that no single chunk holds has been put together and folded, and
\* the frame after it came in a chunk of its own
C9_Witness ==
  \E t \in Turns :
    /\ turns[t].frames = << <<"{text:Hello}">>, <<"{text: world}">> >>
    /\ turns[t].accumulated = <<"Hello", " ", "world">>

\* the tool_use frames
ToolUseFrames ==
  { "{tool_use:1.bash}", "{tool_use:1.read}", "{tool_use:2.bash}", "{tool_use:bad}" }

NoDuplicateIds(list) ==
  \A i, j \in 1..Len(list) : list[i].id = list[j].id => i = j

\* C10: folding a tool_use event whose id is already in the invocation list
\* leaves the list as it is, and the list never holds two entries of one id.
C10_ToolUseIdempotent ==
  /\ NoDuplicateIds(toolUses)
  /\ \A t \in Turns : \A frame \in ToolUseFrames :
       LET toolData == JSONparse(SSEparse(frame)[1].data) IN
       (toolData # None /\ \E i \in 1..Len(toolUses) : toolUses[i].id = toolData[1].id)
         => FoldLine(LoopState(t), DataPrefix \o <<frame>>).toolUses = toolUses

C10_Witness ==
  \E t \in Turns :
    /\ turns[t].frames = << <<"{tool_use:1.bash}">>, <<"{tool_use:1.read}">> >>
    /\ toolUses = <<[id |-> "1", name |-> "bash", input |-> "{}"]>>

\* the first k characters of a run-length encoded string
RECURSIVE RunsFirst(_, _)
RunsFirst(r, k) ==
  IF k <= 0 \/ r = <<>> THEN <<>>
  ELSE IF Head(r).n <= k THEN RunsCat(<<Head(r)>>, RunsFirst(Tail(r), k - Head(r).n))
  ELSE <<[c |-> Head(r).c, n |-> k]>>

\* the raw tool_output payloads
RawOutputs == { "w*4", "x*2600", "{}" }

\* what the buffer would hold after a payload if nothing were dropped
WouldBe(prev, data) ==
  RunsCat(RunsCat(prev, IF prev # <<>> THEN <<[c |-> "\n", n |-> 1]>> ELSE <<>>),
          RunsOf(data))

\* C11: the live-output buffer never holds more than 5000 characters, and
\* when a tool_output payload would take it over the cap the buffer becomes
\* the last 5000 characters of what it would have held: it has 5000
\* characters and the would-be content is some dropped head followed by it.
C11_LiveOutputCapped ==
  /\ RunsLen(streamingToolOutput) <= 5000
  /\ \A t \in Turns : \A data \in RawOutputs :
       LET would == WouldBe(streamingToolOutput, data)
           after == FoldToolOutput(LoopState(t), data).streamingToolOutput IN
       IF RunsLen(would) > 5000
       THEN /\ RunsLen(after) = 5000
            /\ RunsCat(RunsFirst(would, RunsLen(would) - 5000), after) = would
       ELSE after = would

\* two long payloads have come in and the head of the first was dropped
C11_Witness ==
  /\ \E t \in Turns :
       turns[t].frames = << <<"{tool_output:x*2600}">>, <<"{tool_output:x*2600}">> >>
  /\ streamingToolOutput =
       <<[c |-> "x", n |-> 2399], [c |-> "\n", n |-> 1], [c |-> "x", n |-> 2600]>>

\* the permission_request payloads that parse
PermissionPayloads == { "{permissionRequestId:p1,suggestions}", "{permissionRequestId:p2}" }

\* the text buffer: the local, the ref and the displayed copy
TextOf(S) == <<S.accumulated, S.accumulatedRef, S.streamingContent>>

\* C12: a permission_request event followed by a deny decision leaves the text
\* buffer as it was: neither folding the request nor submitting the decision
\* changes it; and after the deny the gate returns to idle, with no pending
\* request.
C12_DenyKeepsTextAndReturnsToIdle ==
  /\ [](\A t \in Turns : \A data \in PermissionPayloads :
          TextOf(FoldPermissionRequest(LoopState(t), data)) = TextOf(LoopState(t)))
  /\ [][permissionPosts' # permissionPosts =>
          /\ \A t \in Turns : turns'[t].accumulated = turns[t].accumulated
          /\ accumulatedRef' = accumulatedRef
          /\ streamingContent' = streamingContent]_vars
  /\ ((pendingPermission # None /\ permissionResolved = Some("deny"))
        ~> (pendingPermission = None))

\* text, then a request, then the deny, then the delayed clear, in a turn
\* that is still reading
C12_Witness ==
  /\ \E t \in Turns :
       /\ turns[t].pc = "read"
       /\ turns[t].frames = << <<"{text:Hello}">>, <<"{permission_request:p1}">> >>
       /\ turns[t].accumulated = <<"Hello">>
  /\ Len(permissionPosts) = 1
  /\ permissionPosts[1].decision.behavior = "deny"
  /\ permissionTimers = 0
  /\ pendingPermission = None

\* C13 as claimed: the step that submits a decision leaves no pending request.
C13_Original ==
  [][permissionPosts' # permissionPosts => pendingPermission' = None]_vars

\* C13, amended: the step that submits a decision marks the request resolved,
\* as allowed or denied, and clears the pending-approval indicator, before the
\* POST has settled and whatever its outcome; the pending request itself stays
\* exposed in that step, and is cleared when the delayed clear that follows
\* the POST runs.
C13_DecisionResolvesAtOnceClearsLater ==
  /\ [][permissionPosts' # permissionPosts =>
          /\ permissionResolved' \in {Some("allow"), Some("deny")}
          /\ (permissionResolved' = Some("deny"))
               = (permissionPosts'[Len(permissionPosts')].decision.behavior = "deny")
          /\ pendingApprovalSessionId' = ""
          /\ pendingPermission' = pendingPermission
          /\ permissionTimers' = permissionTimers + 1]_vars
  /\ [][permissionTimers' < permissionTimers =>
          pendingPermission' = None /\ permissionResolved' = None]_vars

\* a decision has been submitted and its POST has not settled: the request is
\* marked resolved and is still exposed
C13_Witness ==
  /\ pendingPermission # None
  /\ permissionResolved = Some("allow")
  /\ pendingApprovalSessionId = ""
  /\ permissionTimers = 1
  /\ Len(permissionPosts) = 1
  /\ \E t \in Turns : turns[t].pc = "read"

\* C14: in every state in which no turn is in progress the permission gate is
\* idle, with no pending request and no session marked as awaiting approval;
\* and the step that ends a turn leaves no pending request.
C14_GateIdleWhenNoTurn ==
  /\ []((\A t \in Turns : ~Active(t)) =>
          pendingPermission = None /\ pendingApprovalSessionId = "")
  /\ [][\A t \in Turns : (Active(t) /\ turns'[t].pc = "done") =>
          pendingPermission' = None]_vars

\* a turn has ended, by its stream closing, with a request that no decision
\* was given for
C14_Witness ==
  /\ \A t \in Turns : ~Active(t)
  /\ \E t \in Turns :
       /\ turns[t].exit = "completed"
       /\ turns[t].frames = << <<"{permission_request:p1}">> >>
  /\ permissionPosts = <<>>
  /\ pendingPermission = None

\* C15: the deferred status clear that a status event with a session id has
\* scheduled does not change the status text once the turn that scheduled it
\* has ended.
C15_StatusTimerOfEndedTurnIsNoOp ==
  [][(statusTimers # <<>> /\ statusTimers' = Tail(statusTimers)
        /\ ~Active(Head(statusTimers))) =>
       statusText' = statusText]_vars

\* the inputs the properties of handleSubmit range over
AnyInputs ==
  SubmitInputs \cup BuiltInCommands \cup { <<" ">>, <<>>, <<"hi">>, <<"hi", "\n">> }

\* C16 as claimed: a locally handled directive changes the message list only,
\* and every input that is not one is passed to send as it is.
C16_Original ==
  \A inputValue \in AnyInputs :
    IF inputValue \in LocalCommands
    THEN SubmitEffect(inputValue) = [View EXCEPT !.messages = SubmitEffect(inputValue).messages]
    ELSE SubmitEffect(inputValue) = SendEffect(inputValue)

\* C16, amended: the input is trimmed first.  If what is left is a locally
\* handled directive, the message list alone changes: clear empties it, help
\* and cost append one static assistant message each; no request is issued
\* and the streaming flag and the turn state stay.  If nothing is left,
\* nothing happens.  Anything else, the other built-in commands included, is
\* passed to send, trimmed.  A command picked in the popover is handled alike.
C16_DirectivesAreLocal ==
  /\ \A inputValue \in AnyInputs :
       LET content == Trim(inputValue)
           E == SubmitEffect(inputValue) IN
       CASE content = <<"/clear">> -> E = [View EXCEPT !.messages = <<>>]
         [] content = <<"/help">> ->
              E = [View EXCEPT !.messages =
                     Append(messages, AssistantMessage(<<"## Available Commands ...">>, None))]
         [] content = <<"/cost">> ->
              E = [View EXCEPT !.messages =
                     Append(messages, AssistantMessage(<<"## Token Usage ...">>, None))]
         [] content = <<>> -> E = View
         [] OTHER -> E = SendEffect(content)
  /\ \A command \in BuiltInCommands :
       IF command \in {<<"/help">>, <<"/clear">>, <<"/cost">>}
       THEN /\ CommandEffect(command) = [View EXCEPT !.messages = CommandEffect(command).messages]
            /\ CommandEffect(command) = SubmitEffect(command)
       ELSE CommandEffect(command) = SendEffect(command)

\* help was asked for while a turn was streaming: the turn's state is as it
\* was, and the message list ends with the help message
C16_Witness ==
  /\ isStreaming
  /\ \E t \in Turns : turns[t].pc = "read" /\ turns[t].accumulated = <<"Hello">>
  /\ streamingContent = <<"Hello">>
  /\ messages = <<UserMessage(<<"hi">>), HelpMessage>>

\* C17: every turn that has started terminates, and the streaming flag, once
\* set, is cleared again, provided every request is answered, every stream
\* ends or fails, and an aborted request rejects; no decision on a pending
\* permission request is needed for that.
C17_EveryTurnTerminates ==
  /\ \A t \in 1..(MaxInputs \div 2) :
       (t \in Turns /\ Active(t)) ~> (t \in Turns /\ ~Active(t))
  /\ isStreaming ~> ~isStreaming

\* a turn was stopped with a permission request pending that no decision was
\* ever given for
C17_Witness ==
  /\ \E t \in Turns :
       /\ turns[t].exit = "stopped"
       /\ turns[t].frames = << <<"{text:Hello}">>, <<"{permission_request:p1}">> >>
  /\ permissionPosts = <<>>
  /\ ~isStreaming
  /\ \A t \in Turns : ~Active(t)

\* C18: a cancelled turn with text accumulated ends by committing that text
\* with the stopped annotation, whether the aborted read rejects or reports
\* the end of the stream.
C18_CancelSameOutcomeEitherWay ==
  [][\A t \in Turns :
       (turns[t].pc = "read" /\ turns[t].aborted /\ Trim(turns[t].accumulated) # <<>>
          /\ turns'[t].pc = "done") =>
         messages' = Append(messages,
                            AssistantMessage(Trim(turns[t].accumulated) \o StoppedAnnotation,
                                             None))]_vars

\* C19: folding a tool_use event whose id is already in the invocation list
\* changes nothing of the turn state: the live output, too, stays as it is.
C19_RepeatedToolUseIsNoOp ==
  \A t \in Turns :
    turns[t].pc = "read" =>
      \A frame \in ToolUseFrames :
        LET toolData == JSONparse(SSEparse(frame)[1].data) IN
        (toolData # None /\ \E i \in 1..Len(toolUses) : toolUses[i].id = toolData[1].id)
          => Folded(FoldLine(LoopState(t), DataPrefix \o <<frame>>)) = Folded(LoopState(t))

\* C20: once a done event has been folded the controller reads no further:
\* nothing that follows done in the stream changes the turn state.
C20_NothingFoldedAfterDone ==
  [][\A t \in Turns :
       (turns[t].pc = "read" /\ turns'[t].pc = "read"
          /\ \E i \in 1..Len(turns[t].frames) : turns[t].frames[i] = <<"{done}">>) =>
         /\ turns'[t].accumulated = turns[t].accumulated
         /\ turns'[t].tokenUsage = turns[t].tokenUsage
         /\ turnState' = turnState]_vars

\* frames of every kind but permission_request
OtherFrames ==
  { "{text:Hello}", "{text: world}", "{error:boom}", "{tool_use:1.bash}", "{tool_use:2.bash}",
    "{tool_result:1}", "{tool_output:progress}", "{tool_output:w*4}", "{status:init}",
    "{status:notify}", "{status:busy}", "{result:u1}", "{done}", "{ping}" }

\* the loop state with the permission gate idle
GateIdle(S) ==
  [S EXCEPT !.pendingPermission = None, !.permissionResolved = None,
            !.pendingApprovalSessionId = ""]

\* C21: while a permission request is pending the read loop goes on folding:
\* an event of any other kind has the effect on the turn state that it would
\* have with the gate idle, and leaves the gate as it is.
C21_FoldingGoesOnWhilePending ==
  \A t \in Turns :
    (turns[t].pc = "read" /\ pendingPermission # None) =>
      \A frame \in OtherFrames :
        LET line == DataPrefix \o <<frame>>
            pending == FoldLine(LoopState(t), line)
            idle == FoldLine(GateIdle(LoopState(t)), line) IN
        /\ GateIdle(pending) = idle
        /\ pending.pendingPermission = pendingPermission
        /\ pending.permissionResolved = permissionResolved
        /\ pending.pendingApprovalSessionId = pendingApprovalSessionId
        /\ pending.frames = Append(turns[t].frames, <<frame>>)

\* text that came after the request, and before any decision, has been folded
C21_Witness ==
  /\ pendingPermission # None
  /\ permissionPosts = <<>>
  /\ \E t \in Turns :
       /\ turns[t].pc = "read"
       /\ turns[t].frames = << <<"{permission_request:p1}">>, <<"{text:Hello}">> >>
       /\ turns[t].accumulated = <<"Hello">>
  /\ streamingContent = <<"Hello">>

\* what a frame adds to the text buffer: the payload of a text event, the
\* annotation and the payload of an error event, nothing otherwise
TextAdded(frame) ==
  CASE frame = <<"{text:Hello}">> -> <<"Hello">>
    [] frame = <<"{text: world}">> -> <<" ", "world">>
    [] frame = <<"{text: }">> -> <<" ">>
    [] frame = <<"{error:boom}">> -> <<"\n", "\n", "**Error:**", " ", "boom">>
    [] OTHER -> <<>>

\* the concatenation, in order, of what the frames add
RECURSIVE TextOfFrames(_)
TextOfFrames(frames) ==
  IF frames = <<>> THEN <<>> ELSE TextAdded(Head(frames)) \o TextOfFrames(Tail(frames))

IsPrefix(a, b) == Len(a) <= Len(b) /\ SubSeq(b, 1, Len(a)) = a

\* C22: within a turn the text buffer is the concatenation, in stream order,
\* of the payloads of the text events and the annotations of the error events
\* folded so far, and every step of the turn extends the buffer at its end.
C22_TextAppendOnly ==
  /\ [](\A t \in Turns :
          Active(t) =>
            /\ turns[t].accumulated = TextOfFrames(turns[t].frames)
            /\ streamingContent = turns[t].accumulated
            /\ accumulatedRef = turns[t].accumulated)
  /\ [][\A t \in Turns :
          (Active(t) /\ turns'[t].pc # "done") =>
            IsPrefix(turns[t].accumulated, turns'[t].accumulated)]_vars

\* text, an event of another kind, text, an error: all in the buffer, in order
C22_Witness ==
  \E t \in Turns :
    /\ turns[t].frames = << <<"{text:Hello}">>, <<"{tool_use:1.bash}">>,
                            <<"{text: world}">>, <<"{error:boom}">> >>
    /\ turns[t].accumulated =
         <<"Hello", " ", "world", "\n", "\n", "**Error:**", " ", "boom">>

\* the requests of the permission_request payloads
Requests ==
  { [permissionRequestId |-> "p1", suggestions |-> "rules1"],
    [permissionRequestId |-> "p2"] }

\* the body the claim prescribes for a decision on a request
ExpectedBody(request, decision) ==
  CASE decision = "deny" ->
         [permissionRequestId |-> request.permissionRequestId,
          decision |-> [behavior |-> "deny", message |-> "User denied permission"]]
    [] decision = "allow" ->
         [permissionRequestId |-> request.permissionRequestId,
          decision |-> [behavior |-> "allow"]]
    [] decision = "allow_session" /\ "suggestions" \in DOMAIN request ->
         [permissionRequestId |-> request.permissionRequestId,
          decision |-> [behavior |-> "allow", updatedPermissions |-> request.suggestions]]
    [] OTHER ->
         [permissionRequestId |-> request.permissionRequestId,
          decision |-> [behavior |-> "allow"]]

\* C23: the body sent for a decision carries the id of the pending request
\* that the handler was given, and is fixed by the choice: deny sends deny
\* with the fixed message, allow sends allow without updatedPermissions,
\* allow-for-session sends allow with the request's suggestions as
\* updatedPermissions if it has any, and without updatedPermissions if not.
C23_DecisionBody ==
  /\ [](\A request \in Requests : \A decision \in Decisions :
          PermissionBody(request, decision) = ExpectedBody(request, decision))
  /\ [](rendered.pendingPermission # None => rendered.pendingPermission[1] \in Requests)
  /\ [][permissionPosts' # permissionPosts =>
          /\ rendered.pendingPermission # None
          /\ \E decision \in Decisions :
               permissionPosts' =
                 Append(permissionPosts,
                        ExpectedBody(rendered.pendingPermission[1], decision))]_vars

\* allow-for-session was chosen for the request with suggestions, and deny
\* for the request without
C23_Witness ==
  permissionPosts =
    << [permissionRequestId |-> "p1",
        decision |-> [behavior |-> "allow", updatedPermissions |-> "rules1"]],
       [permissionRequestId |-> "p2",
        decision |-> [behavior |-> "deny", message |-> "User denied permission"]] >>

\* the positions of the newlines of a character sequence
NewlinesIn(data) == { i \in 1..Len(data) : data[i] = "\n" }

\* the lines of a character sequence whose newline is in it, in order
TerminatedLines(data) ==
  [k \in 1..Cardinality(NewlinesIn(data)) |->
     LET end == CHOOSE i \in NewlinesIn(data) :
                  Cardinality({ j \in NewlinesIn(data) : j <= i }) = k
         before == { j \in NewlinesIn(data) : j < end }
         start == IF before = {} THEN 1
                  ELSE 1 + CHOOSE j \in before : \A h \in before : h <= j IN
     SubSeq(data, start, end - 1)]

\* what follows the last newline of a character sequence
AfterLastNewline(data) ==
  IF NewlinesIn(data) = {} THEN data
  ELSE LET last == CHOOSE j \in NewlinesIn(data) : \A h \in NewlinesIn(data) : h <= j IN
       SubSeq(data, last + 1, Len(data))

\* the payloads of the frames among some lines
FramePayloads(lines) ==
  LET marked == SelectSeq(lines, IsFrame) IN
  [i \in 1..Len(marked) |-> SubSeq(marked[i], 7, Len(marked[i]))]

\* C24: the framer hands on a line only once its newline has come: from the
\* held-back text followed by a chunk it hands on the lines that a newline
\* ends, and holds back what follows the last newline, to go in front of the
\* next chunk; what is still held back when the stream ends is never folded.
C24_NoFrameBeforeItsNewline ==
  /\ [](\A t \in Turns :
          turns[t].pc = "read" =>
            \A chunk \in FramerChunks :
              /\ FramerLines(turns[t].buffer, chunk) = TerminatedLines(turns[t].buffer \o chunk)
              /\ FramerRest(turns[t].buffer, chunk) = AfterLastNewline(turns[t].buffer \o chunk))
  /\ [][\A t \in Turns :
          (turns[t].pc = "read" /\ turns'[t].pc = "read" /\ chunksRead' # chunksRead) =>
            \E chunk \in FramerChunks :
              /\ turns'[t].buffer = AfterLastNewline(turns[t].buffer \o chunk)
              /\ turns'[t].frames =
                   turns[t].frames \o FramePayloads(TerminatedLines(turns[t].buffer \o chunk))]_vars
  /\ [][\A t \in Turns :
          (turns[t].pc = "read" /\ turns'[t].pc = "done") =>
            /\ turns'[t].frames = turns[t].frames
            /\ messages' =
                 IF Trim(TextOfFrames(turns[t].frames)) # <<>>
                 THEN Append(messages,
                             AssistantMessage(Trim(TextOfFrames(turns[t].frames)), None))
                 ELSE messages]_vars

\* the stream ended with a whole frame held back for want of its newline: the
\* frame before it was folded and committed, and it was not
C24_Witness ==
  \E t \in Turns :
    /\ turns[t].exit = "completed"
    /\ turns[t].frames = << <<"{text:Hello}">> >>
    /\ turns[t].buffer = DataPrefix \o <<"{text:Hello}">>
    /\ messages = <<UserMessage(<<"hi">>), AssistantMessage(<<"Hello">>, None)>>

\* C25: only the message committed on normal completion carries a token
\* usage, the one captured from the result event of the turn: whatever a turn
\* appends when it ends by cancellation or by an error carries none, even when
\* a usage was captured earlier in the turn.
C25_UsageOnlyOnCompletion ==
  /\ [][\A t \in Turns :
          (Active(t) /\ turns'[t].pc = "done") =>
            /\ Len(messages') >= Len(messages)
            /\ \A i \in (Len(messages) + 1)..Len(messages') :
                 messages'[i].token_usage =
                   IF turns'[t].exit = "completed" THEN UsageOf(turns[t].tokenUsage)
                   ELSE None]_vars
  /\ [](\A i \in 1..Len(messages) :
          messages[i].token_usage # None =>
            /\ messages[i].role = "assistant"
            /\ \E t \in Turns : turns[t].exit = "completed")

\* a turn captured a usage and was then cancelled: its partial message has none
C25_Witness ==
  \E t \in Turns :
    /\ turns[t].exit = "stopped"
    /\ turns[t].frames = << <<"{text:Hello}">>, <<"{result:u1}">> >>
    /\ messages = <<UserMessage(<<"hi">>),
                    AssistantMessage(<<"Hello">> \o StoppedAnnotation, None)>>

\* the request that is pending has had no decision sent for it
Undecided ==
  /\ pendingPermission # None
  /\ \A i \in 1..Len(permissionPosts) :
       permissionPosts[i].permissionRequestId # pendingPermission[1].permissionRequestId

\* C26: the delayed clear that follows a decision never removes a different
\* request that became pending later: when it runs while the pending request
\* is one for which no decision has been sent, that request stays pending.
C26_DelayedClearSparesLaterRequest ==
  [][(permissionTimers' < permissionTimers /\ Undecided) =>
       pendingPermission' = pendingPermission]_vars

\* C27: at most one decision is sent for any one permission request: while the
\* request shown to the user is still the pending one and a decision on it has
\* been submitted, a further call of the handler sends nothing.
C27_OneDecisionPerRequest ==
  [][(/\ pendingPermission # None
      /\ permissionResolved # None
      /\ rendered.pendingPermission = pendingPermission) =>
       permissionPosts' = permissionPosts]_vars

\* the status text is the transient connected status of an init event
IsConnectedStatus(text) == text # None /\ Head(text[1]) = "Connected"

\* C28: within a turn the 2 s timer removes only the connected status: when it
\* fires while the turn that scheduled it is still running and the status
\* text has since been set by a later event (a progress heartbeat or a
\* notification), the status text stays.
C28_TimerSparesLaterStatus ==
  [][(/\ statusTimers # <<>>
      /\ statusTimers' = Tail(statusTimers)
      /\ Active(Head(statusTimers))
      /\ statusText # None
      /\ ~IsConnectedStatus(statusText)) =>
       statusText' = statusText]_vars

\* C29: when the read of a turn that has accumulated text fails for a reason
\* other than cancellation, the one message appended is the error report, the
\* accumulated text is in no appended message, and cleanup discards it.
C29_FailureDiscardsAccumulatedText ==
  [][\A t \in Turns :
       (/\ turns[t].pc = "read"
        /\ turns[t].accumulated # <<>>
        /\ turns'[t].exit = "failed") =>
         /\ \E errMsg \in ReadErrors :
              messages' = Append(messages,
                                 AssistantMessage(<<"**Error:**", " ">> \o errMsg, None))
         /\ turns'[t].accumulated = <<>>
         /\ accumulatedRef' = <<>>
         /\ streamingContent' = <<>>]_vars

\* a turn failed after the text Hello: the error report follows the user message
C29_Witness ==
  \E t \in Turns :
    /\ turns[t].exit = "failed"
    /\ turns[t].frames = << <<"{text:Hello}">> >>
    /\ messages = <<UserMessage(<<"hi">>),
                    AssistantMessage(<<"**Error:**", " ", "network", " ", "error">>, None)>>
    /\ streamingContent = <<>>
    /\ accumulatedRef = <<>>

\* C30: when a turn is cancelled while its accumulated text is empty or only
\* whitespace, the end of the turn appends no message: the user message the
\* turn began with stays the last thing it added.
C30_CancelWithoutTextAppendsNothing ==
  /\ [][\A t \in Turns :
          (/\ Active(t)
           /\ turns[t].aborted
           /\ Trim(turns[t].accumulated) = <<>>
           /\ turns'[t].pc = "done") =>
            messages' = messages]_vars
  /\ [][\A t \in Turns :
          (/\ Len(turns') > Len(turns)
           /\ t = Len(turns')) =>
            messages' = Append(messages, UserMessage(turns'[t].content))]_vars

\* a turn cancelled after a text event of whitespace only: the user message is all there is
C30_Witness ==
  /\ \E t \in Turns :
       /\ turns[t].exit = "stopped"
       /\ turns[t].frames = << <<"{text: }">> >>
  /\ messages = <<UserMessage(<<"hi">>)>>

\* the number of messages of a role
CountRole(role) == Cardinality({ i \in 1..Len(messages) : messages[i].role = role })

\* the invocations that have left sendMessage
Ended == { t \in Turns : turns[t].pc = "done" }

\* C31: every accepted send appends exactly one user message, and its turn
\* then appends at most one assistant message, when it ends, by exactly one of
\* the normal commit, the stopped-early commit and the error report; a turn
\* ends once, and between its start and its end only a local command or the
\* initialMessages effect changes the message list.
C31_OneUserThenAtMostOneAssistant ==
  /\ []((commandsRun = 0 /\ ~initializedRef) =>
          /\ CountRole("user") = Len(turns)
          /\ CountRole("assistant") <= Cardinality(Ended))
  /\ [](\A t \in Ended : turns[t].exit \in {"completed", "stopped", "failed"})
  /\ [][/\ Len(turns') > Len(turns) =>
             /\ Len(turns') = Len(turns) + 1
             /\ messages' = Append(messages, UserMessage(turns'[Len(turns')].content))
        /\ \A t \in Turns :
             (Active(t) /\ turns'[t].pc = "done") =>
               \/ messages' = messages
               \/ /\ Len(messages') = Len(messages) + 1
                  /\ SubSeq(messages', 1, Len(messages)) = messages
                  /\ messages'[Len(messages')].role = "assistant"
        /\ \A t \in Ended : turns'[t] = turns[t]
        /\ (Len(turns') = Len(turns) /\ Ended' = Ended /\ messages' # messages) =>
             \/ commandsRun' = commandsRun + 1
             \/ ~initializedRef /\ initializedRef']_vars

\* two sends: the first turn completed with its text, the second failed, and
\* each left its user message followed by its one assistant message
C31_Witness ==
  /\ Len(turns) = 2
  /\ turns[1].exit = "completed"
  /\ turns[2].exit = "failed"
  /\ turns[2].frames = << <<"{text:Hello}">> >>
  /\ messages = <<UserMessage(<<"hi">>), AssistantMessage(<<"Hello">>, None),
                  UserMessage(<<"hi">>),
                  AssistantMessage(<<"**Error:**", " ", "network", " ", "error">>, None)>>

\* the permission_request frames whose payload parses
RequestFrames == { "{permission_request:p1}", "{permission_request:p2}" }

\* the request that a permission_request frame carries
RequestOf(frame) == JSONparse(SSEparse(frame)[1].data)

\* a permission_request event folded while a request is pending replaces it,
\* and the resolved marker is reset
ReplacesPending ==
  [][\A t \in Turns : \A frame \in RequestFrames :
       (/\ turns[t].pc = "read"
        /\ turns'[t].pc = "read"
        /\ turns'[t].frames = Append(turns[t].frames, <<frame>>)
        /\ pendingPermission # None) =>
         /\ pendingPermission' = RequestOf(frame)
         /\ permissionResolved' = None
         /\ pendingApprovalSessionId' = sessionId]_vars

\* a decision that is sent while a request is pending carries the id of that request
DecisionOnPending ==
  [][(permissionPosts' # permissionPosts /\ pendingPermission # None) =>
       permissionPosts'[Len(permissionPosts')].permissionRequestId =
         pendingPermission[1].permissionRequestId]_vars

\* C32: at most one permission request is pending at any time; a
\* permission_request event folded while another request is pending replaces
\* it, with the resolved marker reset; and a decision submitted afterwards
\* carries the id of the newer request, the one that is pending.
C32_ReplacePending ==
  /\ [](Len(pendingPermission) <= 1)
  /\ ReplacesPending
  /\ DecisionOnPending

====
